---- MODULE Spec2Model ----
(***************************************************************************)
(* Model of the Go vanity-import cloud function (package handler).         *)
(*                                                                         *)
(* Strings that the code compares, trims or slices (path keys, request     *)
(* paths, hosts) are sequences of byte values, ordered as Go orders        *)
(* strings.  Repository URLs and display templates are sequences of text   *)
(* segments, so that strings.HasPrefix on them is a real prefix test.      *)
(***************************************************************************)
EXTENDS Integers, Sequences, FiniteSets, TLC

VARIABLES
    handler,    \* the global Handler: [host, cacheControl, paths]
    initErr,    \* what the last InitHandler call returned ("none" before any call)
    fetched,    \* the document behind CONFIG_URL read by init() on a cold start
    request,    \* the last *http.Request given to HandleImport: [Path, Host]
    pc,         \* HandleImport's local pc: index into handler.paths, 0 for nil
    subpath,    \* HandleImport's local subpath
    response,   \* what HandleImport wrote
    ipc,        \* position of the InitHandler call in progress
    iconfig,    \* InitHandler's local config
    todo,       \* keys of config.Paths the range loop has yet to visit
    hpc,        \* position of the HandleImport call in progress
    seen,       \* the handler fields that HandleImport call has read
    built       \* every Handler value a completed InitHandler call has left

vars == <<handler, initErr, fetched, request, pc, subpath, response,
          ipc, iconfig, todo, hpc, seen, built>>

---------------------------------------------------------------------------
(* Bounds *)

MaxLen == 3       \* longest path key of a cold-start document; requests are one longer
MaxEntries == 2   \* most keys in one configuration document
MaxPaths == 3     \* most entries handler.paths may hold before InitHandler is called again

---------------------------------------------------------------------------
(* Bytes and strings *)

Slash == 47                 \* '/'
Alphabet == {45, Slash, 97} \* '-' < '/' < 'a'

Str(n) == UNION {[1..k -> Alphabet] : k \in 0..n}

Min(a, b) == IF a < b THEN a ELSE b

\* Go's < on strings: bytewise lexicographic, a proper prefix is smaller.
StrLess(a, b) ==
    LET n == Min(Len(a), Len(b))
        d == {k \in 1..n : a[k] # b[k]}
    IN  IF d = {} THEN Len(a) < Len(b)
        ELSE LET k == CHOOSE x \in d : \A y \in d : x <= y IN a[k] < b[k]

\* StrGeq with > in place of >=.
StrGreater(a, b) == StrLess(b, a)

StrGeq(a, b) == ~StrLess(a, b)

HasPrefix(s, prefix) ==
    Len(s) >= Len(prefix) /\ SubSeq(s, 1, Len(prefix)) = prefix

HasSuffix(s, suffix) ==
    Len(s) >= Len(suffix) /\ SubSeq(s, Len(s) - Len(suffix) + 1, Len(s)) = suffix

TrimPrefix(s, prefix) ==
    IF HasPrefix(s, prefix) THEN SubSeq(s, Len(prefix) + 1, Len(s)) ELSE s

TrimSuffix(s, suffix) ==
    IF HasSuffix(s, suffix) THEN SubSeq(s, 1, Len(s) - Len(suffix)) ELSE s

---------------------------------------------------------------------------
(* pathConfigSet: Less, sort.Sort, sort.Search and find *)

Less(pset, i, j) == StrLess(pset[i].path, pset[j].path)

IsSorted(pset) == \A i \in 1..(Len(pset) - 1) : ~Less(pset, i + 1, i)

Perms(n) == {f \in [1..n -> 1..n] : \A i, j \in 1..n : i # j => f[i] # f[j]}

\* sort.Sort is not stable: any ordering of the elements that Less accepts.
SortResults(pset) ==
    {q \in {[i \in 1..Len(pset) |-> pset[f[i]]] : f \in Perms(Len(pset))} : IsSorted(q)}

\* sort.Search(n, f): binary search for the smallest 0-based index with f true.
RECURSIVE SearchLoop(_, _, _, _)
SearchLoop(pset, path, i, j) ==
    IF i < j
    THEN LET h == (i + j) \div 2
         IN  IF ~StrGeq(pset[h + 1].path, path)
             THEN SearchLoop(pset, path, h + 1, j)
             ELSE SearchLoop(pset, path, i, h)
    ELSE i

Search(pset, path) == SearchLoop(pset, path, 0, Len(pset))

\* The slow path's loop, from index i (0-based) up to max.
RECURSIVE SlowPath(_, _, _, _, _, _, _)
SlowPath(pset, path, i, max, lenShortestSubpath, bestMatchConfig, sub) ==
    IF i >= max THEN [pc |-> bestMatchConfig, subpath |-> sub]
    ELSE LET ps == pset[i + 1] IN
         IF Len(ps.path) >= Len(path)
         THEN SlowPath(pset, path, i + 1, max, lenShortestSubpath, bestMatchConfig, sub)
         ELSE LET sSubpath == TrimPrefix(path, ps.path) IN
              IF Len(sSubpath) < lenShortestSubpath
              THEN SlowPath(pset, path, i + 1, max, Len(sSubpath), i + 1, sSubpath)
              ELSE SlowPath(pset, path, i + 1, max, lenShortestSubpath, bestMatchConfig, sub)

\* FastIndex testing the first entry instead of the predecessor.
FastIndexFirst(pset, i) == 1

\* The (1-based) index the fast path tests for a prefix match, given the
\* search result i: the predecessor pset[i-1] of the code.
FastIndex(pset, i) == i

\* pc is the 1-based index of the returned entry in pset, 0 for nil.
find(pset, path) ==
    LET i == Search(pset, path) IN
    IF i < Len(pset) /\ pset[i + 1].path = path
    THEN [pc |-> i + 1, subpath |-> <<>>]
    ELSE LET k == FastIndex(pset, i) IN
         IF i > 0 /\ HasPrefix(path, pset[k].path \o <<Slash>>)
         THEN [pc |-> k, subpath |-> SubSeq(path, Len(pset[k].path) + 2, Len(path))]
         ELSE SlowPath(pset, path, 0, i, Len(path), 0, <<>>)

---------------------------------------------------------------------------
(* Handler.Host, serveIndex and HandleImport *)

Host(h, r) == IF h.host = <<>> THEN r.Host ELSE h.host

serveIndex(h, r) ==
    [kind     |-> "index",
     Host     |-> Host(h, r),
     Handlers |-> [i \in 1..Len(h.paths) |-> Host(h, r) \o h.paths[i].path]]

\* Respond with the nil test ahead of the test for "/".
RespondNilFirst(h, r, f) ==
    IF f.pc = 0 THEN [kind |-> "notfound"]
    ELSE [kind         |-> "vanity",
          CacheControl |-> h.cacheControl,
          Import       |-> Host(h, r) \o h.paths[f.pc].path,
          Subpath      |-> f.subpath,
          Repo         |-> h.paths[f.pc].repo,
          Display      |-> h.paths[f.pc].display,
          VCS          |-> h.paths[f.pc].vcs]

\* What HandleImport writes for request r, find having returned f.
Respond(h, r, f) ==
    IF f.pc = 0 /\ r.Path = <<Slash>> THEN serveIndex(h, r)
    ELSE IF f.pc = 0 THEN [kind |-> "notfound"]
    ELSE [kind         |-> "vanity",
          CacheControl |-> h.cacheControl,
          Import       |-> Host(h, r) \o h.paths[f.pc].path,
          Subpath      |-> f.subpath,
          Repo         |-> h.paths[f.pc].repo,
          Display      |-> h.paths[f.pc].display,
          VCS          |-> h.paths[f.pc].vcs]

---------------------------------------------------------------------------
(* InitHandler *)

DefaultCacheAge == 86400

GitHubPrefix == <<"https://github.com/">>
BitbucketPrefix == <<"https://bitbucket.org">>

GitHubDisplay(repo) ==
    repo \o <<" ">> \o repo \o <<"/tree/master{/dir} ">>
         \o repo \o <<"/blob/master{/dir}/{file}#L{line}">>

BitbucketDisplay(repo) ==
    repo \o <<" ">> \o repo \o <<"/src/default{/dir} ">>
         \o repo \o <<"/src/default{/dir}/{file}#{file}-{line}">>

CacheControl(cacheAge) == <<"public, max-age=", cacheAge>>

KnownVCS == {"bzr", "git", "hg", "svn"}

\* The first switch of the range loop's body.
DisplayOf(e) ==
    IF e.Display # <<>> THEN e.Display
    ELSE IF HasPrefix(e.Repo, GitHubPrefix) THEN GitHubDisplay(e.Repo)
    ELSE IF HasPrefix(e.Repo, BitbucketPrefix) THEN BitbucketDisplay(e.Repo)
    ELSE e.Display

\* The second switch: the error it returns ("nil" for none) and pc.vcs.
VCSOf(e) ==
    IF e.VCS # ""
    THEN IF e.VCS \notin KnownVCS
         THEN [err |-> "unknown VCS", vcs |-> e.VCS]
         ELSE [err |-> "nil", vcs |-> e.VCS]
    ELSE IF HasPrefix(e.Repo, GitHubPrefix)
         THEN [err |-> "nil", vcs |-> "git"]
         ELSE [err |-> "cannot infer VCS", vcs |-> e.VCS]

\* One iteration of the range loop over config.Paths: the error, and the
\* pathConfig it appends when there is none.
BuildEntry(path, e) ==
    [err |-> VCSOf(e).err,
     pc  |-> [path    |-> TrimSuffix(path, <<Slash>>),
              repo    |-> e.Repo,
              display |-> DisplayOf(e),
              vcs     |-> VCSOf(e).vcs]]

\* The range loop from the k-th key of the iteration order: it stops at the
\* first error, leaving what it has appended.
RECURSIVE RangeLoop(_, _, _, _)
RangeLoop(paths, config, order, k) ==
    IF k > Len(order) THEN [err |-> "nil", paths |-> paths]
    ELSE LET b == BuildEntry(order[k], config.Paths[order[k]]) IN
         IF b.err # "nil" THEN [err |-> b.err, paths |-> paths]
         ELSE RangeLoop(Append(paths, b.pc), config, order, k + 1)

\* The error of the fetch, read and parse steps, "nil" when they yield a config.
FetchErr(doc) ==
    CASE doc.kind = "config"      -> "nil"
      [] doc.kind = "unreachable" -> "fetch"
      [] doc.kind = "status"      -> "status"
      [] doc.kind = "truncated"   -> "read"
      [] doc.kind = "empty"       -> "empty"
      [] OTHER                    -> "parse"

CacheAgeOf(config) ==
    IF config.CacheAge # <<>> THEN config.CacheAge[1] ELSE DefaultCacheAge

\* The orders in which Go may range over a map with these keys.
Orders(keys) ==
    {o \in [1..Cardinality(keys) -> keys] : \A i, j \in DOMAIN o : i # j => o[i] # o[j]}

\* Every outcome [err, handler] of InitHandler on Handler h when the config
\* URL serves doc and the map is ranged over in this order.
InitHandlerResults(h, doc, order) ==
    IF FetchErr(doc) # "nil" THEN {[err |-> FetchErr(doc), handler |-> h]}
    ELSE LET config == doc.config
             h1 == [h EXCEPT !.host = config.Host]
         IN  IF CacheAgeOf(config) < 0
             THEN {[err |-> "cache_max_age is negative", handler |-> h1]}
             ELSE LET h2 == [h1 EXCEPT !.cacheControl = CacheControl(CacheAgeOf(config))]
                      loop == RangeLoop(h2.paths, config, order, 1)
                  IN  IF loop.err # "nil"
                      THEN {[err |-> loop.err, handler |-> [h2 EXCEPT !.paths = loop.paths]]}
                      ELSE {[err |-> "nil", handler |-> [h2 EXCEPT !.paths = q]] :
                                q \in SortResults(loop.paths)}

---------------------------------------------------------------------------
(* Inputs *)

\* No empty path segment: no two adjacent '/'.
Clean(s) == \A i \in 1..(Len(s) - 1) : ~(s[i] = Slash /\ s[i + 1] = Slash)

\* Path keys: "/" followed by up to MaxLen - 1 bytes, without empty segments.
Keys == {k \in {<<Slash>> \o s : s \in Str(MaxLen - 1)} : Clean(k)}

\* Request paths: empty, or "/" followed by up to MaxLen bytes.
Requests == {<<>>} \cup {<<Slash>> \o s : s \in Str(MaxLen)}

ConfigHosts == {<<>>, <<104>>}     \* host unset, host "h"
RequestHosts == {<<114>>}          \* "r"
CacheAges == {<<>>, <<60>>, <<-1>>} \* cache_max_age unset, 60, -1

GitHubRepo == <<"https://github.com/", "org/x">>
BitbucketRepo == <<"https://bitbucket.org", "/org/x">>
OtherRepo == <<"https://example.com/", "x">>

InferredEntry == [Repo |-> GitHubRepo, Display |-> <<>>, VCS |-> ""]
NoRepoEntry == [Repo |-> <<>>, Display |-> <<>>, VCS |-> "git"]
UnknownVCSEntry == [Repo |-> GitHubRepo, Display |-> <<>>, VCS |-> "foo"]
UninferableEntry == [Repo |-> OtherRepo, Display |-> <<>>, VCS |-> ""]
BitbucketEntry == [Repo |-> BitbucketRepo, Display |-> <<>>, VCS |-> "hg"]
ExplicitEntry == [Repo |-> OtherRepo, Display |-> <<"https://example.com/src">>, VCS |-> "svn"]

NoConfig == [Host |-> <<>>, CacheAge |-> <<>>, Paths |-> <<>>]

FailedDocs ==
    {[kind |-> k, config |-> NoConfig] :
        k \in {"unreachable", "status", "truncated", "empty", "unparsable"}}

\* Parsed documents with at most MaxEntries keys from keys, entries from entries.
Configs(keys, entries, hosts, ages) ==
    {[Host |-> h, CacheAge |-> a, Paths |-> p] :
        h \in hosts, a \in ages,
        p \in UNION {[S -> entries] : S \in {T \in SUBSET keys : Cardinality(T) <= MaxEntries}}}

Docs(keys, entries, hosts, ages) ==
    FailedDocs \cup {[kind |-> "config", config |-> c] : c \in Configs(keys, entries, hosts, ages)}

ZeroHandler == [host |-> <<>>, cacheControl |-> <<>>, paths |-> <<>>]
NoRequest == [Path |-> <<>>, Host |-> <<>>]

NoDoc == [kind |-> "none", config |-> NoConfig]
NoResponse == [kind |-> "none"]
NoSeen == [paths |-> <<>>, cacheControl |-> <<>>, host |-> <<>>]

HttpRequests == [Path : Requests, Host : RequestHosts]

\* Keys and documents of the reconfiguration runs.
ReloadKeys == {<<Slash>>, <<Slash, 97>>, <<Slash, 97, Slash>>}
ReloadEntries == {InferredEntry, UnknownVCSEntry, UninferableEntry}
ReloadDocs == Docs(ReloadKeys, ReloadEntries, ConfigHosts, CacheAges)
ReloadRequests ==
    [Path : {<<Slash>>, <<Slash, 97>>, <<Slash, 97, Slash, 97>>, <<Slash, 45>>}, Host : RequestHosts]

\* Documents a cold start may find behind CONFIG_URL.
AllEntries ==
    {InferredEntry, NoRepoEntry, UnknownVCSEntry, UninferableEntry, BitbucketEntry, ExplicitEntry}
ColdDocs == Docs(Keys, AllEntries, ConfigHosts, CacheAges)

\* Handlers a successful cold start leaves.
ColdResults(doc) ==
    UNION {InitHandlerResults(ZeroHandler, doc, order) : order \in Orders(DOMAIN doc.config.Paths)}

ServingHandlers ==
    UNION {{o.handler : o \in {x \in ColdResults(d) : x.err = "nil"}} :
             d \in Docs(Keys, {InferredEntry}, ConfigHosts, {<<>>})}

---------------------------------------------------------------------------
(* Actions *)

idle == <<ipc, iconfig, todo, hpc, seen, built>>

\* HandleImport(w, r), run to completion.  The function serves once the
\* package's init() has returned.
HandleImport(r) ==
    LET f == find(handler.paths, r.Path) IN
    /\ initErr # "none"
    /\ request' = r
    /\ pc' = f.pc
    /\ subpath' = f.subpath
    /\ response' = Respond(handler, r, f)
    /\ UNCHANGED <<handler, initErr, fetched>>
    /\ UNCHANGED idle

\* InitHandler(ctx, configURL), run to completion, the URL serving doc.
InitHandler(doc) ==
    /\ Len(handler.paths) + Cardinality(DOMAIN doc.config.Paths) <= MaxPaths
    /\ \E order \in Orders(DOMAIN doc.config.Paths) :
         \E o \in InitHandlerResults(handler, doc, order) :
            /\ handler' = o.handler
            /\ initErr' = o.err
    /\ UNCHANGED <<fetched, request, pc, subpath, response>>
    /\ UNCHANGED idle

\* init(): the cold start's InitHandler call; its error is dropped.
init ==
    /\ initErr = "none"
    /\ \E order \in Orders(DOMAIN fetched.config.Paths) :
         \E o \in InitHandlerResults(handler, fetched, order) :
            /\ handler' = o.handler
            /\ initErr' = o.err
    /\ UNCHANGED <<fetched, request, pc, subpath, response>>
    /\ UNCHANGED idle

---------------------------------------------------------------------------
(* Specifications *)

InitIdle ==
    /\ ipc = "idle"
    /\ iconfig = NoConfig
    /\ todo = <<>>
    /\ hpc = "idle"
    /\ seen = NoSeen

InitCommon ==
    /\ initErr = "none"
    /\ request = NoRequest
    /\ pc = 0
    /\ subpath = <<>>
    /\ response = NoResponse
    /\ InitIdle

\* The process from its start, reconfigured and serving in any order.
Init ==
    /\ handler = ZeroHandler
    /\ fetched = NoDoc
    /\ built = {ZeroHandler}
    /\ InitCommon

Next ==
    \/ \E doc \in ReloadDocs : InitHandler(doc)
    \/ \E r \in ReloadRequests : HandleImport(r)

Spec == Init /\ [][Next]_vars

\* One request in flight to a handler that a successful cold start built.
InitFind ==
    /\ handler \in ServingHandlers
    /\ fetched = NoDoc
    /\ built = {handler}
    /\ initErr = "nil"
    /\ request \in HttpRequests
    /\ pc = 0
    /\ subpath = <<>>
    /\ response = NoResponse
    /\ InitIdle

Serve == response = NoResponse /\ HandleImport(request)

NextFind == Serve

SpecFind == InitFind /\ [][NextFind]_vars

\* The cold start alone, over every document.
InitBuild ==
    /\ handler = ZeroHandler
    /\ fetched \in ColdDocs
    /\ built = {ZeroHandler}
    /\ InitCommon

NextBuild == init

SpecBuild == InitBuild /\ [][NextBuild]_vars

---------------------------------------------------------------------------
(* InitHandler and HandleImport statement by statement, for the runs in     *)
(* which a reconfiguration overlaps requests.  Neither takes a lock.        *)

MaxBuilt == 2     \* InitHandler is not called again once built holds more values

ConcEntries == {InferredEntry, UnknownVCSEntry}
ConcKeys == {<<Slash>>, <<Slash, 97>>}
ConcDocs == Docs(ConcKeys, ConcEntries, ConfigHosts, {<<>>, <<-1>>})
ConcRequests == [Path : {<<Slash>>, <<Slash, 97, Slash, 97>>}, Host : RequestHosts]

sequential == <<fetched>>

\* Lines 97-122: fetch, read and parse; an error returns at once.
InitBegin(doc) ==
    /\ ipc = "idle"
    /\ Cardinality(built) <= MaxBuilt
    /\ Len(handler.paths) + Cardinality(DOMAIN doc.config.Paths) <= MaxPaths
    /\ \E order \in Orders(DOMAIN doc.config.Paths) :
         /\ built' = built \cup {o.handler : o \in InitHandlerResults(handler, doc, order)}
         /\ IF FetchErr(doc) # "nil"
            THEN /\ initErr' = FetchErr(doc)
                 /\ UNCHANGED <<ipc, iconfig, todo>>
            ELSE /\ ipc' = "host"
                 /\ iconfig' = doc.config
                 /\ todo' = order
                 /\ UNCHANGED initErr
    /\ UNCHANGED <<handler, request, pc, subpath, response, hpc, seen>>
    /\ UNCHANGED sequential

\* Line 124.
InitSetHost ==
    /\ ipc = "host"
    /\ handler' = [handler EXCEPT !.host = iconfig.Host]
    /\ ipc' = "cacheControl"
    /\ UNCHANGED <<initErr, iconfig, todo, built, request, pc, subpath, response, hpc, seen>>
    /\ UNCHANGED sequential

\* Lines 125-132.
InitSetCacheControl ==
    /\ ipc = "cacheControl"
    /\ IF CacheAgeOf(iconfig) < 0
       THEN /\ initErr' = "cache_max_age is negative"
            /\ ipc' = "idle"
            /\ UNCHANGED handler
       ELSE /\ handler' = [handler EXCEPT !.cacheControl = CacheControl(CacheAgeOf(iconfig))]
            /\ ipc' = "range"
            /\ UNCHANGED initErr
    /\ UNCHANGED <<iconfig, todo, built, request, pc, subpath, response, hpc, seen>>
    /\ UNCHANGED sequential

\* Lines 133-158: one iteration of the range loop.
InitRange ==
    /\ ipc = "range"
    /\ todo # <<>>
    /\ LET b == BuildEntry(Head(todo), iconfig.Paths[Head(todo)]) IN
       IF b.err # "nil"
       THEN /\ initErr' = b.err
            /\ ipc' = "idle"
            /\ UNCHANGED <<handler, todo>>
       ELSE /\ handler' = [handler EXCEPT !.paths = Append(@, b.pc)]
            /\ todo' = Tail(todo)
            /\ UNCHANGED <<initErr, ipc>>
    /\ UNCHANGED <<iconfig, built, request, pc, subpath, response, hpc, seen>>
    /\ UNCHANGED sequential

\* Lines 159-160.
InitSort ==
    /\ ipc = "range"
    /\ todo = <<>>
    /\ \E q \in SortResults(handler.paths) : handler' = [handler EXCEPT !.paths = q]
    /\ initErr' = "nil"
    /\ ipc' = "idle"
    /\ UNCHANGED <<iconfig, todo, built, request, pc, subpath, response, hpc, seen>>
    /\ UNCHANGED sequential

\* Lines 170-179: find on handler.paths as it is now.
ImportFind(r) ==
    /\ hpc = "idle"
    /\ initErr # "none"
    /\ LET f == find(handler.paths, r.Path) IN
       /\ request' = r
       /\ pc' = f.pc
       /\ subpath' = f.subpath
       /\ seen' = [NoSeen EXCEPT !.paths = handler.paths]
       /\ IF f.pc = 0 /\ r.Path = <<Slash>>
          THEN hpc' = "index" /\ response' = NoResponse
          ELSE IF f.pc = 0
               THEN hpc' = "idle" /\ response' = [kind |-> "notfound"]
               ELSE hpc' = "cacheControl" /\ response' = NoResponse
    /\ UNCHANGED <<handler, initErr, ipc, iconfig, todo, built>>
    /\ UNCHANGED sequential

\* Lines 200-215: serveIndex reads host and paths.
ImportIndex ==
    /\ hpc = "index"
    /\ response' = serveIndex(handler, request)
    /\ seen' = [seen EXCEPT !.paths = handler.paths, !.host = handler.host]
    /\ hpc' = "idle"
    /\ UNCHANGED <<handler, initErr, ipc, iconfig, todo, built, request, pc, subpath>>
    /\ UNCHANGED sequential

\* Line 181.
ImportCacheControl ==
    /\ hpc = "cacheControl"
    /\ seen' = [seen EXCEPT !.cacheControl = handler.cacheControl]
    /\ hpc' = "render"
    /\ UNCHANGED <<handler, initErr, ipc, iconfig, todo, built, request, pc, subpath, response>>
    /\ UNCHANGED sequential

\* Lines 182-196: reads host, and the entry through the pointer find
\* returned.  The pointer is into the array handler.paths had at line 171:
\* should append have moved the slice since, the entry is the one found;
\* should sort.Sort have swapped in place, it is what now lies at that index.
ImportRender ==
    /\ hpc = "render"
    /\ \E entries \in {seen.paths} \cup
                      (IF pc <= Len(handler.paths) THEN {handler.paths} ELSE {}) :
         response' = Respond([host |-> handler.host, cacheControl |-> seen.cacheControl,
                              paths |-> entries],
                             request, [pc |-> pc, subpath |-> subpath])
    /\ seen' = [seen EXCEPT !.host = handler.host]
    /\ hpc' = "idle"
    /\ UNCHANGED <<handler, initErr, ipc, iconfig, todo, built, request, pc, subpath>>
    /\ UNCHANGED sequential

NextConc ==
    \/ \E doc \in ConcDocs : InitBegin(doc)
    \/ InitSetHost
    \/ InitSetCacheControl
    \/ InitRange
    \/ InitSort
    \/ \E r \in ConcRequests : ImportFind(r)
    \/ ImportIndex
    \/ ImportCacheControl
    \/ ImportRender

SpecConc == Init /\ [][NextConc]_vars

---------------------------------------------------------------------------
(* Properties of find, checked on what HandleImport got from it *)

Served == response.kind # "none"

\* The glossary's prefix-ancestor: R equals P, or R starts with P followed by '/'.
PrefixAncestor(P, R) == P = R \/ HasPrefix(R, P \o <<Slash>>)

Entry(k) == handler.paths[k]

Configured == DOMAIN handler.paths

\* C1: over a sorted configuration find never returns an entry whose path
\* is neither the request path nor followed by '/' in it.
BoundaryCorrect ==
    (Served /\ IsSorted(handler.paths) /\ pc # 0)
        => PrefixAncestor(Entry(pc).path, request.Path)

\* C2: over a sorted configuration, with P configured (the root entry, stored
\* as the empty path, included) and s non-empty, find(P + "/" + s) never
\* returns no match, and a prefix-ancestor it returns is P or a longer one.
AncestorAlwaysMatches ==
    (Served /\ IsSorted(handler.paths))
        => \A k \in Configured :
             (/\ HasPrefix(request.Path, Entry(k).path \o <<Slash>>)
              /\ Len(request.Path) > Len(Entry(k).path) + 1)
                 => /\ pc # 0
                    /\ PrefixAncestor(Entry(pc).path, request.Path)
                          => Len(Entry(pc).path) >= Len(Entry(k).path)

\* C3: over a sorted configuration, when find returns an entry no strictly
\* longer configured path is a prefix-ancestor of the request.
LongestPrefixPriority ==
    (Served /\ IsSorted(handler.paths) /\ pc # 0)
        => \A k \in Configured :
             PrefixAncestor(Entry(k).path, request.Path)
                 => Len(Entry(k).path) <= Len(Entry(pc).path)

\* Two configured prefix-ancestors of different lengths, the longer returned
\* for a request that goes on past it.
LongestPrefixWitness ==
    /\ Served /\ IsSorted(handler.paths) /\ pc # 0
    /\ Len(request.Path) > Len(Entry(pc).path) + 1
    /\ PrefixAncestor(Entry(pc).path, request.Path)
    /\ \E k \in Configured :
         /\ PrefixAncestor(Entry(k).path, request.Path)
         /\ Len(Entry(k).path) < Len(Entry(pc).path)

\* C4: over a sorted configuration, a request for a configured entry's own
\* stored path returns an entry with that path and an empty subpath.
ExactMatchPriority ==
    (Served /\ IsSorted(handler.paths))
        => \A k \in Configured :
             Entry(k).path = request.Path
                 => pc # 0 /\ Entry(pc).path = request.Path /\ subpath = <<>>

\* An entry requested by its own path while a shorter prefix-ancestor of it
\* is configured too.
ExactMatchWitness ==
    /\ Served /\ IsSorted(handler.paths) /\ pc # 0
    /\ Entry(pc).path = request.Path
    /\ \E k \in Configured :
         /\ Entry(k).path # request.Path
         /\ PrefixAncestor(Entry(k).path, request.Path)

\* C8: when find returns an entry that is followed by '/' in the request
\* path, the subpath is the request path without the entry's path and that
\* one '/': it is what follows the separator, and does not begin with it.
SubpathValue ==
    (/\ Served /\ IsSorted(handler.paths) /\ pc # 0
     /\ HasPrefix(request.Path, Entry(pc).path \o <<Slash>>))
        => Entry(pc).path \o <<Slash>> \o subpath = request.Path

---------------------------------------------------------------------------
(* Properties of HandleImport *)

\* Stored as the empty path (key "/") or as "/" (key "//").
RegisteredAtRoot(k) == Entry(k).path \in {<<>>, <<Slash>>}

\* C6: the index exactly when find returns nothing for "/", not-found when
\* it returns nothing for another path, the vanity page otherwise; the index
\* lists every configured host+path; and "/" yields the index whenever no
\* entry is registered at the root.
DispatchOnNoMatch ==
    Served =>
        /\ response.kind = "index" <=> (pc = 0 /\ request.Path = <<Slash>>)
        /\ response.kind = "notfound" <=> (pc = 0 /\ request.Path # <<Slash>>)
        /\ response.kind = "vanity" <=> pc # 0
        /\ response.kind = "index" =>
              /\ Len(response.Handlers) = Len(handler.paths)
              /\ \A k \in Configured :
                    response.Handlers[k] = Host(handler, request) \o Entry(k).path
        /\ (request.Path = <<Slash>> /\ \A k \in Configured : ~RegisteredAtRoot(k))
              => response.kind = "index"

\* "/" requested from a handler with entries, none of them at the root.
DispatchWitness ==
    /\ Served /\ request.Path = <<Slash>>
    /\ Configured # {}
    /\ \A k \in Configured : ~RegisteredAtRoot(k)
    /\ response.kind = "index"

---------------------------------------------------------------------------
(* Properties of InitHandler *)

\* C5: a call of InitHandler that returns an error leaves host, cacheControl
\* and paths as they were.
FailedBuildKeepsState == [][initErr' # "nil" => handler' = handler]_vars

HasEmptyRepo(config) == \E k \in DOMAIN config.Paths : config.Paths[k].Repo = <<>>

\* C7: a configuration with an entry whose repo is empty, with or without an
\* explicit vcs or display, is rejected: InitHandler returns an error and
\* stores no entry with an empty repo.
EmptyRepoRejected ==
    (initErr # "none" /\ fetched.kind = "config" /\ HasEmptyRepo(fetched.config))
        => /\ initErr # "nil"
           /\ \A k \in Configured : Entry(k).repo # <<>>

\* C9: handler.paths is strictly ascending by path after any InitHandler calls.
StrictlyAscending ==
    \A i, j \in Configured : i < j => StrLess(Entry(i).path, Entry(j).path)

---------------------------------------------------------------------------
(* Reconfiguration while serving *)

\* C10: the host, cacheControl and paths a HandleImport call used for its
\* vanity page are those of one Handler value left by an InitHandler call,
\* the one before the reconfiguration or the one after.
NoTornRead ==
    (hpc = "idle" /\ response.kind = "vanity")
        => \E b \in built :
              /\ seen.paths = b.paths
              /\ seen.cacheControl = b.cacheControl
              /\ seen.host = b.host

====
